---- MODULE Spec2Model ----
(***************************************************************************)
(* Model of kotlin-native/runtime/src/custom_alloc/cpp/MediumPage.cpp :   *)
(* one medium page of the custom allocator, a chain of variable-length    *)
(* cells inside a fixed array, with next-fit allocation and a sweep that  *)
(* reclaims unmarked cells and coalesces free runs.                       *)
(*                                                                         *)
(* Addresses are cell indices: cells_ + i is the index i, a payload       *)
(* pointer block->data_ of the cell at i is i + 1 (the unit right after   *)
(* the header), and cells_ + MEDIUM_PAGE_CELL_COUNT is End(cells).        *)
(* Cell (Cell.hpp / Cell.cpp) is not among the sources: its operations    *)
(* are modelled from the description of the cell in the specification.    *)
(* A unit of the array is a header the page wrote or Garbage (raw memory, *)
(* object bytes): the payload of a cell lies in the same array as the     *)
(* headers.                                                                *)
(***************************************************************************)
EXTENDS Integers, FiniteSets, Sequences, TLC

VARIABLES
    cells_,     \* MediumPage::cells_ : index -> [isAllocated_, size_]
    curBlock_,  \* MediumPage::curBlock_ : index into cells_
    marked,     \* the collector's mark bits: headers whose object is marked
    phase,      \* "live" | "aborted" (Create's assertion) | "destroyed"
    op,         \* the call that completed last: [name, arg, ret, freed]
    prior       \* the call before it, recorded when it was a Sweep

vars == <<cells_, curBlock_, marked, phase, op, prior>>

\* Number of cells of a page (CustomAllocConstants.hpp is not among the
\* sources; the model checks a small page).
MEDIUM_PAGE_CELL_COUNT == 7

\* The uint32_t value 2^32 - 1, written as its 32-bit pattern read as a signed
\* number (TLC's integers are 32 bits wide): the one value whose
\* successor wraps to 0.
UINT32_MAX == -1

\* x + 1 in uint32_t.
Uint32Inc(x) == IF x = UINT32_MAX THEN 0 ELSE x + 1

\* nullptr as a payload address: no cell's data_ is at index 0.
nullptr == 0

\* The arguments tried: every block size up to CELL_COUNT - 1 (the last is
\* larger than any cell can hold), and every cellCount up to one past the
\* capacity. A block size whose successor wraps is not among them:
\* Cell::TryAllocate requires cellsNeeded >= 1.
BlockSizes == 0 .. (MEDIUM_PAGE_CELL_COUNT - 1)
CellCounts == 0 .. (MEDIUM_PAGE_CELL_COUNT + 1)

----------------------------------------------------------------------------
(* Cell *)

\* Cell::Cell(size): a free cell header.
Cell(size) == [isAllocated_ |-> FALSE, size_ |-> size]

\* cells_ + MEDIUM_PAGE_CELL_COUNT of the page that holds `cells`.
End(cells) == Cardinality(DOMAIN cells)

\* Cell::Next(): this + size_.
Next(cells, block) == block + cells[block].size_

\* Cell::data_ of the cell at `block`.
Data(block) == block + 1

\* Cell::TryAllocate(cellsNeeded) on the cell at `this`.
CellTryAllocate(cells, this, cellsNeeded) ==
    IF cells[this].isAllocated_ \/ cells[this].size_ < cellsNeeded
    THEN [cells |-> cells, block |-> nullptr]
    ELSE LET orig == cells[this].size_
             taken == [cells EXCEPT ![this].isAllocated_ = TRUE]
             shrunk == [taken EXCEPT ![this].size_ = cellsNeeded]
             carved == IF orig > cellsNeeded
                       THEN [shrunk EXCEPT ![this + cellsNeeded] = Cell(orig - cellsNeeded)]
                       ELSE taken
         IN  [cells |-> carved, block |-> Data(this)]

\* Cell::Deallocate().
Deallocate(cells, block) == [cells EXCEPT ![block].isAllocated_ = FALSE]

----------------------------------------------------------------------------
(* Page *)

\* The content of a unit that holds no header the page wrote: memory as
\* SafeAlloc returned it, or the bytes of an object. It has no size_ and no
\* isAllocated_: a step of the page that read one would stop the check with
\* an error.
Garbage == [garbage |-> TRUE]

\* The memory of a fresh page of n cells: the constructor writes cells_[0]
\* and cells_[1], and nothing else.
PageOf(n) ==
    [i \in 0 .. (n - 1) |->
        IF i = 0 THEN Cell(0) ELSE IF i = 1 THEN Cell(n - 1) ELSE Garbage]

\* The caller's use of the pointer TryAllocate returned: the object is
\* written into the blockSize units of the payload.
MutatorFills(cells, block, blockSize) ==
    IF block = nullptr
    THEN cells
    ELSE [i \in DOMAIN cells |->
            IF block <= i /\ i < block + blockSize THEN Garbage ELSE cells[i]]

\* The constructor with cells_[1] one unit too long.
MediumPageTooLong(cellCount) ==
    [cells |-> [PageOf(MEDIUM_PAGE_CELL_COUNT) EXCEPT ![1] = Cell(MEDIUM_PAGE_CELL_COUNT)],
     curBlock |-> 0]

\* MediumPage::MediumPage(cellCount): cellCount is not used.
MediumPage(cellCount) ==
    [cells |-> PageOf(MEDIUM_PAGE_CELL_COUNT), curBlock |-> 0]

\* RuntimeAssert(condition, message): the process aborts when it fails.
RuntimeAssertFails(condition) == ~condition

\* Create with the bound of the assertion off by one.
CreateAcceptsCapacity(cellCount) ==
    IF RuntimeAssertFails(cellCount <= MEDIUM_PAGE_CELL_COUNT)
    THEN [aborted |-> TRUE, cells |-> PageOf(0), curBlock |-> 0]
    ELSE [aborted |-> FALSE,
          cells |-> MediumPage(cellCount).cells,
          curBlock |-> MediumPage(cellCount).curBlock]

\* MediumPage::Create(cellCount).
Create(cellCount) ==
    IF RuntimeAssertFails(cellCount < MEDIUM_PAGE_CELL_COUNT)
    THEN [aborted |-> TRUE, cells |-> PageOf(0), curBlock |-> 0]
    ELSE [aborted |-> FALSE,
          cells |-> MediumPage(cellCount).cells,
          curBlock |-> MediumPage(cellCount).curBlock]

\* The scan loop with >= for >: a later free cell of equal size replaces
\* maxBlock.
RECURSIVE ScanLastLargest(_, _, _, _, _)
ScanLastLargest(cells, block, stop, maxBlock, cellsNeeded) ==
    IF block = stop
    THEN [found |-> FALSE, maxBlock |-> maxBlock]
    ELSE IF ~cells[block].isAllocated_ /\ cells[block].size_ >= cells[maxBlock].size_
         THEN IF cells[block].size_ >= cellsNeeded
              THEN [found |-> TRUE, maxBlock |-> block]
              ELSE ScanLastLargest(cells, Next(cells, block), stop, block, cellsNeeded)
         ELSE ScanLastLargest(cells, Next(cells, block), stop, maxBlock, cellsNeeded)

\* One scan loop of UpdateCurBlock: from `block` until `stop`, tracking the
\* largest free cell, returning at the first free cell that is both larger
\* than maxBlock and large enough.
RECURSIVE Scan(_, _, _, _, _)
Scan(cells, block, stop, maxBlock, cellsNeeded) ==
    IF block = stop
    THEN [found |-> FALSE, maxBlock |-> maxBlock]
    ELSE IF ~cells[block].isAllocated_ /\ cells[block].size_ > cells[maxBlock].size_
         THEN IF cells[block].size_ >= cellsNeeded
              THEN [found |-> TRUE, maxBlock |-> block]
              ELSE Scan(cells, Next(cells, block), stop, block, cellsNeeded)
         ELSE Scan(cells, Next(cells, block), stop, maxBlock, cellsNeeded)

\* UpdateCurBlock without the second loop (no scan from the beginning).
UpdateCurBlockNoWrap(cells, curBlock, cellsNeeded) ==
    LET start == IF curBlock = 0 THEN 1 ELSE curBlock
    IN  Scan(cells, start, End(cells), 0, cellsNeeded).maxBlock

\* UpdateCurBlock as pure first fit: one scan from index 1, the cursor ignored.
UpdateCurBlockFirstFit(cells, curBlock, cellsNeeded) ==
    Scan(cells, 1, End(cells), 0, cellsNeeded).maxBlock

\* MediumPage::UpdateCurBlock(cellsNeeded): the new curBlock_.
UpdateCurBlock(cells, curBlock, cellsNeeded) ==
    LET start == IF curBlock = 0 THEN 1 ELSE curBlock
        fwd == Scan(cells, start, End(cells), 0, cellsNeeded)
    IN  IF fwd.found
        THEN fwd.maxBlock
        ELSE Scan(cells, 1, start, fwd.maxBlock, cellsNeeded).maxBlock

\* TryAllocate that retries but does not return the retry's pointer.
TryAllocateDropsRetry(cells, curBlock, blockSize) ==
    LET cellsNeeded == Uint32Inc(blockSize)
        fast == CellTryAllocate(cells, curBlock, cellsNeeded)
    IN  IF fast.block # nullptr
        THEN [cells |-> fast.cells, curBlock |-> curBlock, block |-> fast.block]
        ELSE LET moved == UpdateCurBlock(cells, curBlock, cellsNeeded)
                 retry == CellTryAllocate(cells, moved, cellsNeeded)
             IN  [cells |-> retry.cells, curBlock |-> moved, block |-> nullptr]

\* TryAllocate that asks the cell for blockSize units, the header forgotten.
TryAllocateNoHeader(cells, curBlock, blockSize) ==
    LET cellsNeeded == blockSize
        fast == CellTryAllocate(cells, curBlock, cellsNeeded)
    IN  IF fast.block # nullptr
        THEN [cells |-> fast.cells, curBlock |-> curBlock, block |-> fast.block]
        ELSE LET moved == UpdateCurBlock(cells, curBlock, cellsNeeded)
                 retry == CellTryAllocate(cells, moved, cellsNeeded)
             IN  [cells |-> retry.cells, curBlock |-> moved, block |-> retry.block]

\* TryAllocate without the early return: the search and the second
\* Cell::TryAllocate run after a successful first one as well.
TryAllocateNoEarlyReturn(cells, curBlock, blockSize) ==
    LET cellsNeeded == Uint32Inc(blockSize)
        fast == CellTryAllocate(cells, curBlock, cellsNeeded)
        moved == UpdateCurBlock(fast.cells, curBlock, cellsNeeded)
        retry == CellTryAllocate(fast.cells, moved, cellsNeeded)
    IN  [cells |-> retry.cells, curBlock |-> moved, block |-> retry.block]

\* MediumPage::TryAllocate(blockSize): the page after the call and the
\* pointer returned.
TryAllocate(cells, curBlock, blockSize) ==
    LET cellsNeeded == Uint32Inc(blockSize)
        fast == CellTryAllocate(cells, curBlock, cellsNeeded)
    IN  IF fast.block # nullptr
        THEN [cells |-> fast.cells, curBlock |-> curBlock, block |-> fast.block]
        ELSE LET moved == UpdateCurBlock(cells, curBlock, cellsNeeded)
                 retry == CellTryAllocate(cells, moved, cellsNeeded)
             IN  [cells |-> retry.cells, curBlock |-> moved, block |-> retry.block]

\* TryResetMark(block->data_): the mark of the object in the cell at block.
TryResetMark(marks, block) == block \in marks

\* The first loop with the mark test inverted.
RECURSIVE SweepReclaimInverted(_, _, _, _)
SweepReclaimInverted(cells, marks, block, alive) ==
    IF block = End(cells)
    THEN [cells |-> cells, marks |-> marks, alive |-> alive]
    ELSE IF cells[block].isAllocated_
         THEN IF ~TryResetMark(marks, block)
              THEN SweepReclaimInverted(cells, marks \ {block}, Next(cells, block), TRUE)
              ELSE SweepReclaimInverted(Deallocate(cells, block), marks, Next(cells, block), alive)
         ELSE SweepReclaimInverted(cells, marks, Next(cells, block), alive)

\* The first loop with a mark test that does not reset the mark.
RECURSIVE SweepReclaimKeepsMarks(_, _, _, _)
SweepReclaimKeepsMarks(cells, marks, block, alive) ==
    IF block = End(cells)
    THEN [cells |-> cells, marks |-> marks, alive |-> alive]
    ELSE IF cells[block].isAllocated_
         THEN IF TryResetMark(marks, block)
              THEN SweepReclaimKeepsMarks(cells, marks, Next(cells, block), TRUE)
              ELSE SweepReclaimKeepsMarks(Deallocate(cells, block), marks, Next(cells, block), alive)
         ELSE SweepReclaimKeepsMarks(cells, marks, Next(cells, block), alive)

\* First loop of Sweep: reset the mark of each marked cell, deallocate each
\* unmarked allocated cell.
RECURSIVE SweepReclaim(_, _, _, _)
SweepReclaim(cells, marks, block, alive) ==
    IF block = End(cells)
    THEN [cells |-> cells, marks |-> marks, alive |-> alive]
    ELSE IF cells[block].isAllocated_
         THEN IF TryResetMark(marks, block)
              THEN SweepReclaim(cells, marks \ {block}, Next(cells, block), TRUE)
              ELSE SweepReclaim(Deallocate(cells, block), marks, Next(cells, block), alive)
         ELSE SweepReclaim(cells, marks, Next(cells, block), alive)

\* The inner loop as an if: only the first following free cell is absorbed.
AbsorbOnce(cells, block) ==
    IF Next(cells, block) # End(cells) /\ ~cells[Next(cells, block)].isAllocated_
    THEN [cells EXCEPT ![block].size_ = @ + cells[Next(cells, block)].size_]
    ELSE cells

\* The inner while loop of Sweep: the free cell at block absorbs each free
\* cell that follows it.
RECURSIVE Absorb(_, _)
Absorb(cells, block) ==
    IF Next(cells, block) # End(cells) /\ ~cells[Next(cells, block)].isAllocated_
    THEN Absorb([cells EXCEPT ![block].size_ = @ + cells[Next(cells, block)].size_], block)
    ELSE cells

\* The second loop without its inner loop: free cells are not merged.
RECURSIVE SweepCoalesceNoMerge(_, _, _)
SweepCoalesceNoMerge(cells, block, maxBlock) ==
    IF block = End(cells)
    THEN [cells |-> cells, maxBlock |-> maxBlock]
    ELSE IF cells[block].isAllocated_
         THEN SweepCoalesceNoMerge(cells, Next(cells, block), maxBlock)
         ELSE LET larger == IF cells[block].size_ > cells[maxBlock].size_
                            THEN block ELSE maxBlock
              IN  SweepCoalesceNoMerge(cells, Next(cells, block), larger)

\* The second loop with >= for >: the last of the largest free cells wins.
RECURSIVE SweepCoalesceLastLargest(_, _, _)
SweepCoalesceLastLargest(cells, block, maxBlock) ==
    IF block = End(cells)
    THEN [cells |-> cells, maxBlock |-> maxBlock]
    ELSE IF cells[block].isAllocated_
         THEN SweepCoalesceLastLargest(cells, Next(cells, block), maxBlock)
         ELSE LET merged == Absorb(cells, block)
                  larger == IF merged[block].size_ >= merged[maxBlock].size_
                            THEN block ELSE maxBlock
              IN  SweepCoalesceLastLargest(merged, Next(merged, block), larger)

\* The second loop with the size compared before the cell has absorbed its
\* followers.
RECURSIVE SweepCoalesceBeforeMerge(_, _, _)
SweepCoalesceBeforeMerge(cells, block, maxBlock) ==
    IF block = End(cells)
    THEN [cells |-> cells, maxBlock |-> maxBlock]
    ELSE IF cells[block].isAllocated_
         THEN SweepCoalesceBeforeMerge(cells, Next(cells, block), maxBlock)
         ELSE LET merged == Absorb(cells, block)
                  larger == IF cells[block].size_ > cells[maxBlock].size_
                            THEN block ELSE maxBlock
              IN  SweepCoalesceBeforeMerge(merged, Next(merged, block), larger)

\* Second loop of Sweep: coalesce and track the largest free cell.
RECURSIVE SweepCoalesce(_, _, _)
SweepCoalesce(cells, block, maxBlock) ==
    IF block = End(cells)
    THEN [cells |-> cells, maxBlock |-> maxBlock]
    ELSE IF cells[block].isAllocated_
         THEN SweepCoalesce(cells, Next(cells, block), maxBlock)
         ELSE LET merged == Absorb(cells, block)
                  larger == IF merged[block].size_ > merged[maxBlock].size_
                            THEN block ELSE maxBlock
              IN  SweepCoalesce(merged, Next(merged, block), larger)

\* Sweep with alive set for every allocated cell met, marked or not.
SweepAliveIfAllocated(cells, marks) ==
    LET reclaimed == SweepReclaim(cells, marks, 1, FALSE)
        coalesced == SweepCoalesce(reclaimed.cells, 1, 0)
    IN  [cells |-> coalesced.cells, curBlock |-> coalesced.maxBlock,
         marks |-> reclaimed.marks,
         alive |-> SweepReclaim(cells, DOMAIN cells, 1, FALSE).alive]

\* MediumPage::Sweep(): the page and the marks after the call, and the
\* boolean returned.
Sweep(cells, marks) ==
    LET reclaimed == SweepReclaim(cells, marks, 1, FALSE)
        coalesced == SweepCoalesce(reclaimed.cells, 1, 0)
    IN  [cells |-> coalesced.cells, curBlock |-> coalesced.maxBlock,
         marks |-> reclaimed.marks, alive |-> reclaimed.alive]

\* MediumPage::CheckInvariants(): the walk from cells_ + 1.
RECURSIVE CheckWalk(_, _)
CheckWalk(cells, cur) ==
    IF Next(cells, cur) <= cur THEN FALSE
    ELSE IF Next(cells, cur) > End(cells) THEN FALSE
    ELSE IF Next(cells, cur) = End(cells) THEN TRUE
    ELSE CheckWalk(cells, Next(cells, cur))

CheckInvariants(cells, curBlock) ==
    IF curBlock < 0 \/ curBlock >= End(cells) THEN FALSE
    ELSE CheckWalk(cells, 1)

----------------------------------------------------------------------------
(* The loops, counted *)

\* The count that stands for a loop that has not stopped after as many
\* iterations as the page has cells, or has left the headers of the page.
Runaway(cells) == End(cells) + 1

\* A loop has run n iterations and is at `block`: it cannot go on within the
\* page.
Lost(cells, block, n) ==
    n >= End(cells) \/ block \notin DOMAIN cells \/ cells[block] = Garbage

\* The iterations of one scan loop of UpdateCurBlock (lines 72-80, 82-90),
\* with what the loop found.
RECURSIVE ScanVisits(_, _, _, _, _, _)
ScanVisits(cells, block, stop, maxBlock, cellsNeeded, n) ==
    IF block = stop
    THEN [found |-> FALSE, maxBlock |-> maxBlock, visits |-> n]
    ELSE IF Lost(cells, block, n)
    THEN [found |-> FALSE, maxBlock |-> maxBlock, visits |-> Runaway(cells)]
    ELSE IF ~cells[block].isAllocated_ /\ cells[block].size_ > cells[maxBlock].size_
         THEN IF cells[block].size_ >= cellsNeeded
              THEN [found |-> TRUE, maxBlock |-> block, visits |-> n + 1]
              ELSE ScanVisits(cells, Next(cells, block), stop, block, cellsNeeded, n + 1)
         ELSE ScanVisits(cells, Next(cells, block), stop, maxBlock, cellsNeeded, n + 1)

\* The iterations of UpdateCurBlock with the scan started at curBlock_ even
\* when that is the sentinel (line 69 left out).
UpdateCurBlockVisitsNoSkip(cells, curBlock, cellsNeeded) ==
    LET fwd == ScanVisits(cells, curBlock, End(cells), 0, cellsNeeded, 0)
        wrap == ScanVisits(cells, 1, curBlock, fwd.maxBlock, cellsNeeded, 0)
    IN  IF fwd.found \/ fwd.visits = Runaway(cells)
        THEN [forward |-> fwd.visits, wrap |-> 0]
        ELSE [forward |-> fwd.visits, wrap |-> wrap.visits]

\* The iterations of the two loops of UpdateCurBlock(cellsNeeded), and so of
\* a TryAllocate whose fast path fails.
UpdateCurBlockVisits(cells, curBlock, cellsNeeded) ==
    LET start == IF curBlock = 0 THEN 1 ELSE curBlock
        fwd == ScanVisits(cells, start, End(cells), 0, cellsNeeded, 0)
        wrap == ScanVisits(cells, 1, start, fwd.maxBlock, cellsNeeded, 0)
    IN  IF fwd.found \/ fwd.visits = Runaway(cells)
        THEN [forward |-> fwd.visits, wrap |-> 0]
        ELSE [forward |-> fwd.visits, wrap |-> wrap.visits]

\* The iterations of the first loop of Sweep (lines 46-54): it changes no
\* size.
RECURSIVE SweepReclaimVisits(_, _, _)
SweepReclaimVisits(cells, block, n) ==
    IF block = End(cells) THEN n
    ELSE IF Lost(cells, block, n) THEN Runaway(cells)
    ELSE SweepReclaimVisits(cells, Next(cells, block), n + 1)

\* The iterations of the inner while loop of Sweep (lines 58-60) at block.
RECURSIVE AbsorbVisits(_, _, _)
AbsorbVisits(cells, block, n) ==
    IF Lost(cells, Next(cells, block), n) /\ Next(cells, block) # End(cells)
    THEN Runaway(cells)
    ELSE IF Next(cells, block) # End(cells) /\ ~cells[Next(cells, block)].isAllocated_
    THEN AbsorbVisits([cells EXCEPT ![block].size_ = @ + cells[Next(cells, block)].size_],
                      block, n + 1)
    ELSE n

\* The iterations of the second loop of Sweep (lines 56-62), those of its
\* inner loop included.
RECURSIVE SweepCoalesceVisits(_, _, _)
SweepCoalesceVisits(cells, block, n) ==
    IF block = End(cells) THEN n
    ELSE IF Lost(cells, block, n) THEN Runaway(cells)
    ELSE IF cells[block].isAllocated_
         THEN SweepCoalesceVisits(cells, Next(cells, block), n + 1)
         ELSE LET inner == AbsorbVisits(cells, block, 0)
                  merged == Absorb(cells, block)
              IN  IF inner = Runaway(cells)
                  THEN Runaway(cells)
                  ELSE SweepCoalesceVisits(merged, Next(merged, block), n + 1 + inner)

\* The iterations of the two loops of Sweep().
SweepVisits(cells, marks) ==
    LET first == SweepReclaimVisits(cells, 1, 0)
    IN  IF first = Runaway(cells)
        THEN [reclaim |-> first, coalesce |-> 0]
        ELSE [reclaim |-> first,
              coalesce |-> SweepCoalesceVisits(SweepReclaim(cells, marks, 1, FALSE).cells, 1, 0)]

\* The iterations of the walk of CheckInvariants (lines 96-100).
RECURSIVE CheckWalkVisits(_, _, _)
CheckWalkVisits(cells, cur, n) ==
    IF Lost(cells, cur, n) THEN Runaway(cells)
    ELSE IF Next(cells, cur) <= cur THEN n + 1
    ELSE IF Next(cells, cur) > End(cells) THEN n + 1
    ELSE IF Next(cells, cur) = End(cells) THEN n + 1
    ELSE CheckWalkVisits(cells, Next(cells, cur), n + 1)

----------------------------------------------------------------------------
(* The chain, as the loops of the page walk it *)

\* The headers met from `block` to the end of the page.
RECURSIVE ChainFrom(_, _)
ChainFrom(cells, block) ==
    IF block >= End(cells) \/ cells[block] = Garbage \/ cells[block].size_ = 0
    THEN {}
    ELSE {block} \cup ChainFrom(cells, Next(cells, block))

Chain(cells) == ChainFrom(cells, 1)

Allocated(cells) == {b \in Chain(cells) : cells[b].isAllocated_}
Free(cells) == {b \in Chain(cells) : ~cells[b].isAllocated_}

\* The units of the cell at b: its header and its payload.
Units(cells, b) == b .. (b + cells[b].size_ - 1)

----------------------------------------------------------------------------
(* State machine *)

\* A call as recorded: `freed` is, for a Sweep, the cells it deallocated, each
\* as <<header, size>> of the chain before the call.
Call(name, arg, ret, freed) ==
    [name |-> name, arg |-> arg, ret |-> ret, freed |-> freed]

NoPrior == [sweep |-> FALSE, ret |-> FALSE, freed |-> {}]

\* The record of the call before: kept when it was a Sweep.
Prior(call) ==
    IF call.name = "Sweep"
    THEN [sweep |-> TRUE, ret |-> call.ret, freed |-> call.freed]
    ELSE NoPrior

\* The page right after the pool's first Create.
Init ==
    \E cellCount \in CellCounts :
        LET c == Create(cellCount)
        IN  /\ cells_ = c.cells
            /\ curBlock_ = c.curBlock
            /\ marked = {}
            /\ phase = IF c.aborted THEN "aborted" ELSE "live"
            /\ op = Call("Create", cellCount, 0, {})
            /\ prior = NoPrior

\* The pool creates a page again after it destroyed one.
DoCreate ==
    /\ phase = "destroyed"
    /\ \E cellCount \in CellCounts :
        LET c == Create(cellCount)
        IN  /\ cells_' = c.cells
            /\ curBlock_' = c.curBlock
            /\ marked' = {}
            /\ phase' = IF c.aborted THEN "aborted" ELSE "live"
            /\ op' = Call("Create", cellCount, 0, {})
            /\ prior' = NoPrior

\* The mutator allocates and writes its object: the new object is not marked.
DoTryAllocate ==
    /\ phase = "live"
    /\ \E blockSize \in BlockSizes :
        LET r == TryAllocate(cells_, curBlock_, blockSize)
        IN  /\ cells_' = MutatorFills(r.cells, r.block, blockSize)
            /\ curBlock_' = r.curBlock
            /\ op' = Call("TryAllocate", blockSize, r.block, {})
    /\ prior' = Prior(op)
    /\ UNCHANGED <<marked, phase>>

\* The collector marks one live object.
DoMark ==
    /\ phase = "live"
    /\ \E b \in Allocated(cells_) \ marked :
        marked' = marked \cup {b}
    /\ op' = Call("Mark", 0, 0, {})
    /\ prior' = Prior(op)
    /\ UNCHANGED <<cells_, curBlock_, phase>>

\* The sweep without the assignment of line 63: curBlock_ stays where it was.
DoSweepKeepsCursor ==
    /\ phase = "live"
    /\ LET r == Sweep(cells_, marked)
           dead == Allocated(cells_) \ marked
       IN  /\ cells_' = r.cells
           /\ curBlock_' = curBlock_
           /\ marked' = r.marks
           /\ op' = Call("Sweep", 0, r.alive, {<<b, cells_[b].size_>> : b \in dead})
    /\ prior' = Prior(op)
    /\ UNCHANGED phase

\* The collector sweeps the page.
DoSweep ==
    /\ phase = "live"
    /\ LET r == Sweep(cells_, marked)
           dead == Allocated(cells_) \ marked
       IN  /\ cells_' = r.cells
           /\ curBlock_' = r.curBlock
           /\ marked' = r.marks
           /\ op' = Call("Sweep", 0, r.alive, {<<b, cells_[b].size_>> : b \in dead})
    /\ prior' = Prior(op)
    /\ UNCHANGED phase

\* MediumPage::Destroy(), called once Sweep has reported the page empty.
DoDestroy ==
    /\ phase = "live"
    /\ op.name = "Sweep" /\ op.ret = FALSE
    /\ phase' = "destroyed"
    /\ op' = Call("Destroy", 0, 0, {})
    /\ prior' = Prior(op)
    /\ UNCHANGED <<cells_, curBlock_, marked>>

Next_ == DoCreate \/ DoTryAllocate \/ DoMark \/ DoSweep \/ DoDestroy

Spec == Init /\ [][Next_]_vars

----------------------------------------------------------------------------
(* Every uint32_t request *)

\* A block size near the top of the range whose successor does not wrap.
LargeBlockSize == 2147483646

\* The arguments of TryAllocate over the whole of uint32_t: the block sizes a
\* cell can hold, the first two that none can, a large one, and the one whose
\* successor wraps to 0.
WideBlockSizes ==
    BlockSizes \cup {MEDIUM_PAGE_CELL_COUNT, LargeBlockSize, UINT32_MAX}

\* blockSize < 2^32 - 1 and blockSize >= CELL_COUNT - 1, in uint32_t.
Oversize(blockSize) ==
    blockSize # UINT32_MAX /\ blockSize >= MEDIUM_PAGE_CELL_COUNT - 1

\* The calls below record the call that completed last and nothing of the
\* calls before it.

\* The pool creates a page again after it destroyed one.
WideCreate ==
    /\ phase = "destroyed"
    /\ \E cellCount \in CellCounts :
        LET c == Create(cellCount)
        IN  /\ cells_' = c.cells
            /\ curBlock_' = c.curBlock
            /\ marked' = {}
            /\ phase' = IF c.aborted THEN "aborted" ELSE "live"
            /\ op' = Call("Create", cellCount, 0, {})
    /\ UNCHANGED prior

\* The mutator allocates, with any uint32_t block size.
WideTryAllocate ==
    /\ phase = "live"
    /\ \E blockSize \in WideBlockSizes :
        LET r == TryAllocate(cells_, curBlock_, blockSize)
        IN  /\ cells_' = MutatorFills(r.cells, r.block, blockSize)
            /\ curBlock_' = r.curBlock
            /\ op' = Call("TryAllocate", blockSize, r.block, {})
    /\ UNCHANGED <<marked, phase, prior>>

\* The collector marks one live object.
WideMark ==
    /\ phase = "live"
    /\ \E b \in Allocated(cells_) \ marked :
        marked' = marked \cup {b}
    /\ op' = Call("Mark", 0, 0, {})
    /\ UNCHANGED <<cells_, curBlock_, phase, prior>>

\* The collector sweeps the page.
WideSweep ==
    /\ phase = "live"
    /\ LET r == Sweep(cells_, marked)
       IN  /\ cells_' = r.cells
           /\ curBlock_' = r.curBlock
           /\ marked' = r.marks
           /\ op' = Call("Sweep", 0, r.alive, {})
    /\ UNCHANGED <<phase, prior>>

\* MediumPage::Destroy(), called once Sweep has reported the page empty.
WideDestroy ==
    /\ phase = "live"
    /\ op.name = "Sweep" /\ op.ret = FALSE
    /\ phase' = "destroyed"
    /\ op' = Call("Destroy", 0, 0, {})
    /\ UNCHANGED <<cells_, curBlock_, marked, prior>>

NextWide == WideCreate \/ WideTryAllocate \/ WideMark \/ WideSweep \/ WideDestroy

SpecWide == Init /\ [][NextWide]_vars

----------------------------------------------------------------------------
(* A page of 16 cells, with the whole sequence of calls recorded *)

\* MEDIUM_PAGE_CELL_COUNT of the page of the end-to-end scenario.
TRACE_CELL_COUNT == 16

\* The longest sequence of calls recorded, Create included.
TraceLen == 7

\* The block sizes of the scenario and of the carving example.
TraceBlockSizes == {3, 5, 8, 20}

\* The calls so far, oldest first: here `prior` holds every call before the
\* last one.
Trace == Append(prior, op)

\* MediumPage::Create(cellCount) where MEDIUM_PAGE_CELL_COUNT is
\* TRACE_CELL_COUNT.
TraceCreate(cellCount) ==
    IF RuntimeAssertFails(cellCount < TRACE_CELL_COUNT)
    THEN [aborted |-> TRUE, cells |-> PageOf(0), curBlock |-> 0]
    ELSE [aborted |-> FALSE, cells |-> PageOf(TRACE_CELL_COUNT), curBlock |-> 0]

\* Create(0).
TraceInit ==
    LET c == TraceCreate(0)
    IN  /\ cells_ = c.cells
        /\ curBlock_ = c.curBlock
        /\ marked = {}
        /\ phase = IF c.aborted THEN "aborted" ELSE "live"
        /\ op = Call("Create", 0, 0, {})
        /\ prior = <<>>

TraceTryAllocate ==
    /\ phase = "live" /\ Len(Trace) < TraceLen
    /\ \E blockSize \in TraceBlockSizes :
        LET r == TryAllocate(cells_, curBlock_, blockSize)
        IN  /\ cells_' = MutatorFills(r.cells, r.block, blockSize)
            /\ curBlock_' = r.curBlock
            /\ op' = Call("TryAllocate", blockSize, r.block, {})
    /\ prior' = Trace
    /\ UNCHANGED <<marked, phase>>

\* The collector marks the object in the cell at b: recorded with b.
TraceMark ==
    /\ phase = "live" /\ Len(Trace) < TraceLen
    /\ \E b \in Allocated(cells_) \ marked :
        /\ marked' = marked \cup {b}
        /\ op' = Call("Mark", b, 0, {})
    /\ prior' = Trace
    /\ UNCHANGED <<cells_, curBlock_, phase>>

TraceSweep ==
    /\ phase = "live" /\ Len(Trace) < TraceLen
    /\ LET r == Sweep(cells_, marked)
           dead == Allocated(cells_) \ marked
       IN  /\ cells_' = r.cells
           /\ curBlock_' = r.curBlock
           /\ marked' = r.marks
           /\ op' = Call("Sweep", 0, r.alive, {<<b, cells_[b].size_>> : b \in dead})
    /\ prior' = Trace
    /\ UNCHANGED phase

NextTrace == TraceTryAllocate \/ TraceMark \/ TraceSweep

SpecTrace == TraceInit /\ [][NextTrace]_vars

----------------------------------------------------------------------------
(* Properties *)

\* C1: after Create and after every sequence of TryAllocate and Sweep calls
\* CheckInvariants() returns true: curBlock_ lies within the cell array, and
\* the walk from index 1 via Next moves strictly forward and lands exactly on
\* the page end, never past it.
C1_CheckInvariantsHolds ==
    phase = "live" =>
        /\ CheckInvariants(cells_, curBlock_)
        /\ curBlock_ \in 0 .. (End(cells_) - 1)
        /\ \A b \in Chain(cells_) :
              cells_[b].size_ >= 1 /\ Next(cells_, b) <= End(cells_)
        /\ \E b \in Chain(cells_) : Next(cells_, b) = End(cells_)

\* A page of at least three cells, some free and some allocated, right after
\* an allocation that followed a sweep.
C1_Witness ==
    /\ phase = "live"
    /\ op.name = "TryAllocate" /\ op.ret # nullptr /\ prior.sweep
    /\ Cardinality(Chain(cells_)) >= 3
    /\ Free(cells_) # {} /\ Cardinality(Allocated(cells_)) >= 2
    /\ CheckInvariants(cells_, curBlock_)

\* One step of C2.
C2_Step ==
    /\ (op'.name = "TryAllocate" /\ op'.ret # nullptr) =>
          LET header == op'.ret - 1
              payload == op'.ret .. (op'.ret + op'.arg - 1)
          IN  /\ header \in 1 .. (End(cells_) - 1)
              /\ payload \subseteq 1 .. (End(cells_) - 1)
              /\ \A b \in Allocated(cells_) :
                    (payload \cup {header}) \cap Units(cells_, b) = {}
              /\ header \in Allocated(cells_')
              /\ Units(cells_', header) = payload \cup {header}
    /\ (op'.name = "TryAllocate") =>
          LET after == Allocated(cells_')
          IN  \A b \in Allocated(cells_) :
                  b \in after /\ cells_'[b] = cells_[b]
    /\ (op'.name = "Sweep") =>
          LET after == Allocated(cells_')
          IN  \A b \in Allocated(cells_) \cap marked :
                  b \in after /\ cells_'[b] = cells_[b]

C3_FailsIffNoCellFits ==
    [][op'.name = "TryAllocate" =>
          (op'.ret = nullptr <=>
              ~ \E b \in Free(cells_) : cells_[b].size_ >= op'.arg + 1)]_vars

\* A failed request that some page could hold, on a page that has free cells,
\* each too small.
C3_Witness ==
    /\ phase = "live"
    /\ op.name = "TryAllocate" /\ op.ret = nullptr
    /\ op.arg + 1 <= End(cells_) - 1
    /\ Cardinality(Free(cells_)) >= 2

\* C4, as claimed: a TryAllocate that returns nullptr leaves the cells and
\* curBlock_ as they were.
C4_FailedAllocateChangesNothing ==
    [][(op'.name = "TryAllocate" /\ op'.ret = nullptr) =>
          (cells_' = cells_ /\ curBlock_' = curBlock_)]_vars

\* C4, amended: a TryAllocate that returns nullptr leaves the size and the
\* allocated flag of every cell as they were; curBlock_ it may move, to a
\* largest free cell of the page, or to the sentinel when no cell is free.
C4_FailedAllocateKeepsCells ==
    [][(op'.name = "TryAllocate" /\ op'.ret = nullptr) =>
          /\ cells_' = cells_
          /\ marked' = marked
          /\ IF Free(cells_) = {}
             THEN curBlock_' = 0
             ELSE /\ curBlock_' \in Free(cells_)
                  /\ \A f \in Free(cells_) :
                        cells_[f].size_ <= cells_[curBlock_'].size_]_vars

\* A failed allocation, after a sweep, on a page that has free cells.
C4_Witness ==
    /\ phase = "live"
    /\ op.name = "TryAllocate" /\ op.ret = nullptr /\ prior.sweep
    /\ Free(cells_) # {} /\ Allocated(cells_) # {}
    /\ curBlock_ \in Free(cells_)

\* C5: Create(cellCount) aborts exactly when cellCount >= CELL_COUNT, and for
\* every smaller cellCount gives the same page: cells_[0] the free sentinel of
\* size 0, cells_[1] the only cell of the chain, free, of size CELL_COUNT - 1,
\* curBlock_ on cells_[0].
C5_CreateAbortsOrInitialPage ==
    op.name = "Create" =>
        /\ phase \in {"live", "aborted"}
        /\ phase = "aborted" <=> op.arg >= MEDIUM_PAGE_CELL_COUNT
        /\ phase = "live" =>
              /\ End(cells_) = MEDIUM_PAGE_CELL_COUNT
              /\ cells_[0] = [isAllocated_ |-> FALSE, size_ |-> 0]
              /\ cells_[1] = [isAllocated_ |-> FALSE,
                              size_ |-> MEDIUM_PAGE_CELL_COUNT - 1]
              /\ Chain(cells_) = {1}
              /\ curBlock_ = 0
              /\ marked = {}

\* Create with cellCount = CELL_COUNT, the smallest that aborts.
C5_Witness ==
    /\ op.name = "Create" /\ op.arg = MEDIUM_PAGE_CELL_COUNT
    /\ phase = "aborted"

\* C6: after Sweep() the allocated cells are exactly the cells that were
\* allocated and marked before it, each where it was, with its size, its mark
\* cleared; every cell that was allocated and unmarked lies in a free cell,
\* and no cell that was free has become allocated.
C6_SweepKeepsExactlyMarked ==
    [][op'.name = "Sweep" =>
          /\ Allocated(cells_') = Allocated(cells_) \cap marked
          /\ \A b \in Allocated(cells_') : cells_'[b] = cells_[b]
          /\ marked' = {}
          /\ \A b \in Chain(cells_) \ marked :
                \E f \in Free(cells_') : Units(cells_, b) \subseteq Units(cells_', f)]_vars

\* A sweep that kept two cells and freed at least one.
C6_Witness ==
    /\ phase = "live"
    /\ op.name = "Sweep" /\ op.freed # {}
    /\ Cardinality(Allocated(cells_)) >= 2
    /\ marked = {}

\* C7: Sweep() returns true exactly when a cell of the chain is allocated
\* when it returns; when it returns false the chain is one free cell of size
\* CELL_COUNT - 1.
C7_SweepReturnsAlive ==
    (phase = "live" /\ op.name = "Sweep") =>
        /\ op.ret <=> Allocated(cells_) # {}
        /\ ~op.ret =>
              /\ Chain(cells_) = {1}
              /\ cells_[1] = [isAllocated_ |-> FALSE,
                              size_ |-> MEDIUM_PAGE_CELL_COUNT - 1]

\* A sweep that freed three cells and returned false.
C7_Witness ==
    /\ phase = "live"
    /\ op.name = "Sweep" /\ ~op.ret
    /\ Cardinality(op.freed) >= 3

\* The cells that are free after the first loop of a sweep.
Dead(cells, marks) == Free(cells) \cup (Allocated(cells) \ marks)

\* One Sweep step of C8.
C8_Step ==
    /\ \A f \in Free(cells_') :
          LET run == {b \in Chain(cells_) : f <= b /\ b < Next(cells_', f)}
          IN  /\ f \in run
              /\ run \subseteq Dead(cells_, marked)
              /\ Units(cells_', f) = UNION {Units(cells_, b) : b \in run}
              /\ Next(cells_', f) = End(cells_') \/ Next(cells_', f) \in Allocated(cells_')
              /\ \A b \in Chain(cells_) :
                    Next(cells_, b) = f => b \notin Dead(cells_, marked)
    /\ \A b \in Dead(cells_, marked) :
          \E f \in Free(cells_') : b \in Units(cells_', f)
    /\ \A x \in op'.freed : \A y \in op'.freed :
          (/\ y[1] = x[1] + x[2]
           /\ \A b \in Chain(cells_) : Next(cells_, b) = x[1] => b \in marked
           /\ y[1] + y[2] = End(cells_) \/ (y[1] + y[2]) \in marked)
          => (x[1] \in Free(cells_') /\ cells_'[x[1]].size_ = x[2] + y[2])

\* C8: after Sweep() every maximal run of consecutive free cells (freed by
\* this sweep or free before it) is one free cell at the run's first position,
\* its size the sum of the sizes of the run; two adjacent cells of sizes a and
\* b freed by the sweep between allocated neighbours or the page boundary are
\* one free cell of size a + b.
C8_SweepCoalescesRuns == [][op'.name = "Sweep" => C8_Step]_vars

\* A sweep that freed two adjacent cells between two cells that stay
\* allocated, now one free cell.
C8_Witness ==
    /\ phase = "live"
    /\ op.name = "Sweep"
    /\ \E x \in op.freed : \E y \in op.freed :
          /\ y[1] = x[1] + x[2]
          /\ x[1] \in Free(cells_) /\ cells_[x[1]].size_ = x[2] + y[2]
          /\ \E b \in Allocated(cells_) : Next(cells_, b) = x[1]
          /\ Next(cells_, x[1]) \in Allocated(cells_)

\* The largest free cell of the chain, the lowest-positioned among the free
\* cells of that size.
LargestFirst(cells) ==
    CHOOSE f \in Free(cells) :
        \A g \in Free(cells) :
            \/ cells[g].size_ < cells[f].size_
            \/ (cells[g].size_ = cells[f].size_ /\ f <= g)

\* The call before was a Sweep that freed two adjacent cells of sizes a and b,
\* and this call is TryAllocate(a + b - 1): the position of the first of the
\* two cells, for each such pair.
FreedPairFirsts(sweep, blockSize) ==
    {x[1] : x \in {x \in sweep.freed :
                      \E y \in sweep.freed :
                          y[1] = x[1] + x[2] /\ blockSize = x[2] + y[2] - 1}}

\* Of those pairs, the ones that the sweep merged into a free cell of exactly
\* the two (allocated neighbours or the page boundary on both sides): `cells`
\* is the page right after the sweep.
MergedPairFirsts(sweep, cells, blockSize) ==
    {x[1] : x \in {x \in sweep.freed :
                      /\ x[1] \in Free(cells)
                      /\ \E y \in sweep.freed :
                            /\ y[1] = x[1] + x[2]
                            /\ blockSize = x[2] + y[2] - 1
                            /\ cells[x[1]].size_ = x[2] + y[2]}}

\* C9, as claimed: after a Sweep() that frees two adjacent cells of sizes a
\* and b, the next TryAllocate(a + b - 1) succeeds and returns the payload
\* address of the merged cell, the position where the first of the two cells
\* began, whatever other free cells the page holds.
C9_AllocatesAtMergedCell ==
    [][(op.name = "Sweep" /\ op'.name = "TryAllocate") =>
          \A first \in MergedPairFirsts(op, cells_, op'.arg) :
              op'.ret # nullptr /\ op'.ret = Data(first)]_vars

\* C9, amended: after a Sweep() that frees two adjacent cells of sizes a and
\* b, the next TryAllocate(a + b - 1) succeeds and returns the payload address
\* of the cell curBlock_ references after the sweep: the largest free cell of
\* the page, the lowest-positioned among equals. That is the merged cell only
\* when the merged cell is that cell.
C9_AllocatesAtLargestFreeCell ==
    [][(op.name = "Sweep" /\ op'.name = "TryAllocate"
          /\ FreedPairFirsts(op, op'.arg) # {}) =>
          /\ op'.ret # nullptr
          /\ curBlock_ = LargestFirst(cells_)
          /\ op'.ret = Data(LargestFirst(cells_))
          /\ curBlock_' = curBlock_]_vars

\* The allocation that follows a sweep that merged two adjacent cells of
\* sizes a and b into one free cell, asking for a + b - 1: it succeeded in
\* another cell, and the merged cell is still free and whole.
C9_Witness ==
    /\ phase = "live"
    /\ op.name = "TryAllocate" /\ prior.sweep /\ op.ret # nullptr
    /\ \E first \in MergedPairFirsts(prior, cells_, op.arg) :
          op.ret # Data(first)

\* C10, as claimed: a Sweep() right after a Sweep(), no TryAllocate and no
\* marking between them, changes no cell and not curBlock_, and returns what
\* the first returned.
C10_SecondSweepChangesNothing ==
    [][(op.name = "Sweep" /\ op'.name = "Sweep") =>
          /\ cells_' = cells_
          /\ curBlock_' = curBlock_
          /\ op'.ret = op.ret]_vars

\* C10, amended: a Sweep() right after a Sweep(), no TryAllocate and no
\* marking between them, finds every mark cleared by the first: it frees
\* every cell the first kept, leaves the chain one free cell of size
\* CELL_COUNT - 1 with curBlock_ on it, and returns false. It changes nothing
\* and returns what the first returned only when the first returned false.
C10_SecondSweepFreesAll ==
    [][(op.name = "Sweep" /\ op'.name = "Sweep") =>
          /\ op'.ret = FALSE
          /\ Chain(cells_') = {1}
          /\ cells_'[1] = [isAllocated_ |-> FALSE,
                           size_ |-> MEDIUM_PAGE_CELL_COUNT - 1]
          /\ curBlock_' = 1
          /\ {x[1] : x \in op'.freed} = Allocated(cells_)
          /\ op.ret = FALSE =>
                (cells_' = cells_ /\ curBlock_' = curBlock_ /\ op'.ret = op.ret)]_vars

\* A second sweep in a row that returned false after the first returned true.
C10_Witness ==
    /\ phase = "live"
    /\ op.name = "Sweep" /\ prior.sweep
    /\ prior.ret /\ ~op.ret
    /\ op.freed # {}

\* C11: TryAllocate(blockSize) returns nullptr for every blockSize with
\* CELL_COUNT - 1 <= blockSize < 2^32 - 1, in every reachable state.
C11_OversizeFails ==
    (op.name = "TryAllocate" /\ Oversize(op.arg)) => op.ret = nullptr

\* A failed request for far more than a page, after a sweep, on a page that
\* holds a free cell and an allocated one.
C11_Witness ==
    /\ phase = "live"
    /\ op.name = "TryAllocate" /\ op.arg = LargeBlockSize /\ op.ret = nullptr
    /\ Free(cells_) # {} /\ Allocated(cells_) # {}

\* C17, as claimed: for every uint32_t blockSize, the wrapping 2^32 - 1
\* included, the sentinel cells_[0] stays unallocated with size 0 and
\* TryAllocate never returns the sentinel's payload address.
C17_SentinelNeverAllocated ==
    phase = "live" =>
        /\ cells_[0] = Cell(0)
        /\ op.name = "TryAllocate" => op.ret # Data(0)

\* The first k calls of t are the first k calls of the scenario: Create(0),
\* TryAllocate(5), TryAllocate(20), TryAllocate(8), the mark of the object the
\* first allocation returned, Sweep(), TryAllocate(8).
Scenario(t, k) ==
    /\ Len(t) >= k
    /\ \A i \in 1 .. k :
          \/ i = 1 /\ t[i].name = "Create" /\ t[i].arg = 0
          \/ i = 2 /\ t[i].name = "TryAllocate" /\ t[i].arg = 5
          \/ i = 3 /\ t[i].name = "TryAllocate" /\ t[i].arg = 20
          \/ i = 4 /\ t[i].name = "TryAllocate" /\ t[i].arg = 8
          \/ i = 5 /\ t[i].name = "Mark" /\ Data(t[i].arg) = t[2].ret
          \/ i = 6 /\ t[i].name = "Sweep"
          \/ i = 7 /\ t[i].name = "TryAllocate" /\ t[i].arg = 8

\* C12: with CELL_COUNT = 16, after Create(0), TryAllocate(5) returns P1 in
\* the cell whose header is index 1; TryAllocate(20) returns nullptr;
\* TryAllocate(8) returns P2 in the cell whose header is index 7, disjoint
\* from P1; Sweep() with only P1 marked returns true and frees P2's cell while
\* P1's cell stays allocated; the next TryAllocate(8) returns P2 again.
C12_EndToEnd ==
    LET t == Trace
        P1 == t[2].ret
        P2 == t[4].ret
    IN  /\ Scenario(t, 2) => P1 = Data(1)
        /\ Scenario(t, 3) => t[3].ret = nullptr
        /\ Scenario(t, 4) =>
              /\ P2 = Data(7)
              /\ (P1 .. (P1 + 4)) \cap (P2 .. (P2 + 7)) = {}
              /\ (Len(t) = 4 => Allocated(cells_) = {1, 7})
        /\ Scenario(t, 6) =>
              /\ t[6].ret = TRUE
              /\ t[6].freed = {<<P2 - 1, 9>>}
              /\ (Len(t) = 6 =>
                    /\ Allocated(cells_) = {P1 - 1}
                    /\ cells_[P1 - 1] = [isAllocated_ |-> TRUE, size_ |-> 6]
                    /\ (P2 - 1) \in Free(cells_))
        /\ Scenario(t, 7) => (t[7].ret # nullptr /\ t[7].ret = P2)

\* The whole scenario has run, and its last allocation returned index 8.
C12_Witness ==
    /\ Scenario(Trace, 7)
    /\ op.name = "TryAllocate" /\ op.ret = Data(7)
    /\ Allocated(cells_) = {1, 7}

\* The smallest index of a non-empty set of indices.
Lowest(S) == CHOOSE b \in S : \A c \in S : b <= c

\* The cell of S met first in the scan order of UpdateCurBlock: from curBlock
\* (from index 1 when curBlock is the sentinel) to the page end, then from
\* index 1 up to curBlock.
FirstInScanOrder(curBlock, S) ==
    LET start == IF curBlock = 0 THEN 1 ELSE curBlock
        ahead == {b \in S : b >= start}
    IN  IF ahead # {} THEN Lowest(ahead) ELSE Lowest(S)

\* The free cells of the chain that can hold cellsNeeded units.
Fits(cells, cellsNeeded) == {b \in Free(cells) : cells[b].size_ >= cellsNeeded}

\* Cell::TryAllocate(cellsNeeded) on the cell at curBlock would fail.
FastPathFails(cells, curBlock, cellsNeeded) ==
    cells[curBlock].isAllocated_ \/ cells[curBlock].size_ < cellsNeeded

\* C13: when the fast path at curBlock_ fails and some free cell has size >=
\* cellsNeeded, UpdateCurBlock sets curBlock_ to the first such cell in scan
\* order and the retry allocates in exactly that cell.
C13_RetryAtFirstFitInScanOrder ==
    [][(/\ op'.name = "TryAllocate"
        /\ FastPathFails(cells_, curBlock_, op'.arg + 1)
        /\ Fits(cells_, op'.arg + 1) # {}) =>
          LET first == FirstInScanOrder(curBlock_, Fits(cells_, op'.arg + 1))
          IN  /\ curBlock_' = first
              /\ op'.ret = Data(first)
              /\ first \in Allocated(cells_')
              /\ cells_'[first].size_ = op'.arg + 1]_vars

\* A page and a request where the fast path fails and the cell the retry
\* allocates in, the first sufficient one in scan order, is neither the
\* lowest-addressed sufficient cell nor the best-fitting one.
C13_Witness ==
    /\ phase = "live"
    /\ \E blockSize \in BlockSizes :
          LET fits == Fits(cells_, blockSize + 1)
              r == TryAllocate(cells_, curBlock_, blockSize)
          IN  /\ FastPathFails(cells_, curBlock_, blockSize + 1)
              /\ fits # {}
              /\ r.block = Data(FirstInScanOrder(curBlock_, fits))
              /\ r.block # Data(Lowest(fits))
              /\ \E g \in fits : cells_[g].size_ < cells_[r.block - 1].size_

\* The free cells of the largest size among the free cells of the chain.
Largest(cells) ==
    {f \in Free(cells) : \A g \in Free(cells) : cells[g].size_ <= cells[f].size_}

\* C14: when UpdateCurBlock(cellsNeeded) finds no free cell of size >=
\* cellsNeeded, it leaves curBlock_ on the largest free cell of the page, among
\* free cells of equal largest size the one met first in scan order, and on
\* the sentinel cells_[0] when the page has no free cell.
C14_NoFitLeavesLargestInScanOrder ==
    [][(op'.name = "TryAllocate" /\ Fits(cells_, op'.arg + 1) = {}) =>
          /\ op'.ret = nullptr
          /\ curBlock_' = IF Free(cells_) = {}
                          THEN 0
                          ELSE FirstInScanOrder(curBlock_, Largest(cells_))]_vars

\* A page and a request that no free cell can hold, with two largest free
\* cells of equal size, one below the cursor and one above: the failed call
\* leaves curBlock_ on the one above, not on the lowest.
C14_Witness ==
    /\ phase = "live"
    /\ \E blockSize \in BlockSizes :
          LET r == TryAllocate(cells_, curBlock_, blockSize)
          IN  /\ Fits(cells_, blockSize + 1) = {}
              /\ blockSize + 1 <= End(cells_) - 1
              /\ Cardinality(Largest(cells_)) >= 2
              /\ r.block = nullptr
              /\ r.curBlock \in Largest(cells_)
              /\ r.curBlock # Lowest(Largest(cells_))
              /\ r.curBlock # curBlock_

\* C15: after every Sweep() curBlock_ references the largest free cell of the
\* coalesced chain, the lowest-positioned among free cells of equal largest
\* size, and references the sentinel cells_[0] exactly when no cell is free.
C15_SweepLeavesCursorOnLargest ==
    (phase = "live" /\ op.name = "Sweep") =>
        /\ curBlock_ = 0 <=> Free(cells_) = {}
        /\ Free(cells_) # {} =>
              /\ curBlock_ \in Largest(cells_)
              /\ curBlock_ = Lowest(Largest(cells_))

\* Right after a sweep that merged two freed cells: two largest free cells of
\* equal size 2 or more, not the first cell of the page, and curBlock_ on the
\* lower of the two.
C15_Witness ==
    /\ phase = "live"
    /\ op.name = "Sweep" /\ Cardinality(op.freed) >= 2
    /\ Cardinality(Largest(cells_)) >= 2
    /\ curBlock_ = Lowest(Largest(cells_))
    /\ curBlock_ > 1 /\ cells_[curBlock_].size_ >= 2

\* One successful TryAllocate step of C16: header is the cell it returned.
C16_Step ==
    LET header == op'.ret - 1
        cellsNeeded == op'.arg + 1
        original == cells_[header].size_
        remainder == IF original > cellsNeeded THEN {header + cellsNeeded} ELSE {}
    IN  /\ header \in Free(cells_)
        /\ cells_'[header] = [isAllocated_ |-> TRUE, size_ |-> cellsNeeded]
        /\ \A rest \in remainder : cells_'[rest] = Cell(original - cellsNeeded)
        /\ Chain(cells_') = Chain(cells_) \cup remainder
        /\ \A b \in Chain(cells_) \ {header} : cells_'[b] = cells_[b]
        /\ Free(cells_') = (Free(cells_) \ {header}) \cup remainder
        /\ cells_'[0] = cells_[0]
        /\ curBlock_' \in {curBlock_, header}
        /\ marked' = marked

\* C16: a successful TryAllocate changes only the one free cell it carves
\* (allocated, of size cellsNeeded, a free remainder header of size original -
\* cellsNeeded right after it when it was larger) and possibly curBlock_; every
\* other cell keeps its size and allocated flag and no free cells are merged.
C16_AllocateCarvesOneCell ==
    [][(op'.name = "TryAllocate" /\ op'.ret # nullptr) => C16_Step]_vars

\* A successful allocation that left a remainder, on a page with another free
\* cell and at least three allocated cells.
C16_Witness ==
    /\ phase = "live"
    /\ op.name = "TryAllocate" /\ op.ret # nullptr
    /\ Next(cells_, op.ret - 1) \in Free(cells_)
    /\ Cardinality(Free(cells_)) >= 2
    /\ Cardinality(Allocated(cells_)) >= 3

\* C18: from every reachable state each call of TryAllocate, UpdateCurBlock,
\* Sweep and CheckInvariants terminates: the forward scan and the wrap scan,
\* both passes of Sweep with the inner coalescing loop, and the walk of
\* CheckInvariants each finish after visiting at most CELL_COUNT cells.
C18_LoopsTerminate ==
    phase = "live" =>
        /\ \A cellsNeeded \in 1 .. End(cells_) :
              LET u == UpdateCurBlockVisits(cells_, curBlock_, cellsNeeded)
              IN  u.forward + u.wrap <= MEDIUM_PAGE_CELL_COUNT
        /\ SweepVisits(cells_, marked).reclaim <= MEDIUM_PAGE_CELL_COUNT
        /\ SweepVisits(cells_, marked).coalesce <= MEDIUM_PAGE_CELL_COUNT
        /\ CheckWalkVisits(cells_, 1, 0) <= MEDIUM_PAGE_CELL_COUNT

\* A page of five cells or more where a search runs both scans, two cells or
\* more in each, and a sweep would run its inner loop.
C18_Witness ==
    /\ phase = "live"
    /\ Cardinality(Chain(cells_)) >= 5
    /\ \E cellsNeeded \in 1 .. End(cells_) :
          LET u == UpdateCurBlockVisits(cells_, curBlock_, cellsNeeded)
          IN  u.forward >= 2 /\ u.wrap >= 2
    /\ SweepVisits(cells_, marked).coalesce = Cardinality(Chain(cells_))
    /\ Cardinality(Chain(Sweep(cells_, marked).cells)) < Cardinality(Chain(cells_))
    /\ CheckWalkVisits(cells_, 1, 0) = Cardinality(Chain(cells_))

\* C19: in every state reached by Create and completed TryAllocate and Sweep
\* calls, curBlock_ references the sentinel cells_[0] or the header of a cell
\* on the chain walked from index 1, never the inside of a cell nor a header
\* absorbed by coalescing.
C19_CursorOnSentinelOrChain ==
    phase = "live" => (curBlock_ = 0 \/ curBlock_ \in Chain(cells_))

\* Right after a sweep that absorbed the header of a cell it freed: curBlock_
\* is on the free cell that now covers that header.
C19_Witness ==
    /\ phase = "live"
    /\ op.name = "Sweep"
    /\ curBlock_ \in Free(cells_)
    /\ \E x \in op.freed :
          /\ x[1] \notin Chain(cells_)
          /\ x[1] \in Units(cells_, curBlock_)
          /\ cells_[x[1]] # Garbage

\* Two consecutive cells of the chain are both free.
AdjacentFree(cells) ==
    \E b \in Free(cells) : Next(cells, b) \in Free(cells)

\* The units of the page that belong to free cells.
FreeUnits(cells) == UNION {Units(cells, f) : f \in Free(cells)}

\* C20: in every state reached by Create and completed TryAllocate and Sweep
\* calls no two consecutive cells of the chain are both free; so when
\* TryAllocate returns nullptr the page has no run of blockSize + 1 contiguous
\* free units at all.
C20_NoAdjacentFreeCells ==
    phase = "live" =>
        /\ ~AdjacentFree(cells_)
        /\ (op.name = "TryAllocate" /\ op.ret = nullptr) =>
              \A first \in 1 .. (End(cells_) - 1) :
                  ~ ((first .. (first + op.arg)) \subseteq FreeUnits(cells_))

\* A failed request that the free units of the page, taken together, could
\* hold: three free cells, none next to another.
C20_Witness ==
    /\ phase = "live"
    /\ op.name = "TryAllocate" /\ op.ret = nullptr
    /\ Cardinality(Free(cells_)) >= 3
    /\ Cardinality(FreeUnits(cells_)) >= op.arg + 1

====
